---------------------------- MODULE Spec2Model ----------------------------
(***************************************************************************)
(* A model of the excuse generator (src/src/generator.py) and of the       *)
(* Streamlit front end that drives it (src/app.py).                        *)
(*                                                                         *)
(* Texts are TLA+ strings, taken apart with Len and SubSeq and put         *)
(* together with \o, so that formatting, truncation, stripping and the     *)
(* JSON encoding of the log are computed character by character as the    *)
(* Python code computes them.  The em dash of five templates (U+2014, one  *)
(* character in Python) is written "-" here, also one character.           *)
(***************************************************************************)
EXTENDS Integers, Sequences, FiniteSets, TLC

VARIABLES
    templates,   \* ExcuseGenerator.templates: category -> ordered tone entries
    rng,         \* state of ExcuseGenerator.random
    now,         \* the wall clock read by datetime.now()
    form,        \* the fields of the ExcuseRequest under construction
    last,        \* the last call made on the generator, with what it computed
    seen,        \* text returned by the first generate call made with each seed
    session,     \* st.session_state: history, current_excuse
    fs,          \* the file system: the directories and path -> content
    log          \* what was done so far: the persist calls that completed and
                 \* the texts the front end got back, each in call order

vars == <<templates, rng, now, form, last, seen, session, fs, log>>

None == "<None>"

\* seed = None (the seeds given are never negative)
NoSeed == -1

----------------------------------------------------------------------------
(* Strings *)

CharAt(s, i) == SubSeq(s, i, i)

\* the set of elements of a sequence
Range(seq) == {seq[i] : i \in DOMAIN seq}

\* the first index in lo .. hi at which sub occurs in s, 0 if none (the search
\* halves the range, so that long texts need no deep recursion)
RECURSIVE IndexIn(_, _, _, _)
IndexIn(s, sub, lo, hi) ==
    IF lo > hi THEN 0
    ELSE IF lo = hi
    THEN IF SubSeq(s, lo, lo + Len(sub) - 1) = sub THEN lo ELSE 0
    ELSE LET mid  == (lo + hi) \div 2
             left == IndexIn(s, sub, lo, mid)
         IN  IF left # 0 THEN left ELSE IndexIn(s, sub, mid + 1, hi)

\* str.find(sub, i): the first index >= i at which sub occurs in s, 0 if none
IndexOf(s, sub, i) == IndexIn(s, sub, i, Len(s) - Len(sub) + 1)

\* sub in s
Contains(s, sub) == IndexOf(s, sub, 1) # 0

\* the characters str.strip() removes
Whitespace == {" ", "\t", "\n", "\r"}

\* the first index in lo .. hi whose character is not whitespace, 0 if none
RECURSIVE FirstSolid(_, _, _)
FirstSolid(s, lo, hi) ==
    IF lo > hi THEN 0
    ELSE IF lo = hi
    THEN IF CharAt(s, lo) \in Whitespace THEN 0 ELSE lo
    ELSE LET mid  == (lo + hi) \div 2
             left == FirstSolid(s, lo, mid)
         IN  IF left # 0 THEN left ELSE FirstSolid(s, mid + 1, hi)

\* the last index in lo .. hi whose character is not whitespace, 0 if none
RECURSIVE LastSolid(_, _, _)
LastSolid(s, lo, hi) ==
    IF lo > hi THEN 0
    ELSE IF lo = hi
    THEN IF CharAt(s, lo) \in Whitespace THEN 0 ELSE lo
    ELSE LET mid   == (lo + hi) \div 2
             right == LastSolid(s, mid + 1, hi)
         IN  IF right # 0 THEN right ELSE LastSolid(s, lo, mid)

\* str.strip()
Strip(s) ==
    LET first == FirstSolid(s, 1, Len(s))
    IN  IF first = 0 THEN "" ELSE SubSeq(s, first, LastSolid(s, 1, Len(s)))

\* text.split(sep)[0]: the text before the first sep, the whole text if none
SplitFirst(s, sep) ==
    LET i == IndexOf(s, sep, 1)
    IN  IF i = 0 THEN s ELSE SubSeq(s, 1, i - 1)

Digit(d) == CharAt("0123456789", d + 1)

\* a two-digit, zero-padded number (%I, %M, %d)
TwoDigits(n) == Digit(n \div 10) \o Digit(n % 10)

----------------------------------------------------------------------------
(* The random source *)

\* the number of states of the modelled random source
RngMod == 8

RngStates == 0 .. (RngMod - 1)

\* random.seed(s)
RngSeed(s) == s % RngMod

\* the state after one draw
RngNext(r) == (5 * r + 3) % RngMod

\* random.choice(seq) from state r: the element drawn and the state after
Choice(seq, r) == [value |-> seq[(r % Len(seq)) + 1], rng |-> RngNext(r)]

----------------------------------------------------------------------------
(* The template catalog *)

Entry(tone, list) == [tone |-> tone, list |-> list]

LoadTemplates ==
    ( "General" :> <<
        Entry("Professional", <<
          "Sorry for the short notice. Something unexpected came up, so I can't {action} by {timeframe}. I'll share a simple plan and new time.",
          "Apologies-an issue popped up and needs my attention. I'll update on {deliverable} by {new_time}." >>),
        Entry("Casual", <<
          "Sorry-something came up, so I can't {action} today. Can we do {new_time}?",
          "Hey, quick heads-up: I'm tied up last minute. Can we move {action} to {new_time}?" >>),
        Entry("Sincere", <<
          "Thanks for understanding. A personal thing came up, so I can't {action} as planned. I'll follow up by {new_time}." >>),
        Entry("Brief", <<
          "Sorry-unexpected issue. Can't {action} by {timeframe}. Update by {new_time}." >>),
        Entry("Light-hearted", <<
          "Looks like I double-booked myself. Can we move {action} to {new_time}?" >>) >> )
 @@ ( "Work Deadline" :> <<
        Entry("Professional", <<
          "I hit a blocker on {deliverable}. I won't make today's deadline. I'll send a simple plan and new ETA by {new_time}." >>),
        Entry("Sincere", <<
          "I'm sorry-something urgent slowed down {deliverable}. I'll focus on it and share a new time by {new_time}." >>),
        Entry("Brief", <<
          "Delay on {deliverable} due to a blocker. New ETA {new_time}." >>) >> )
 @@ ( "School Assignment" :> <<
        Entry("Professional", <<
          "I ran into an issue and need a short extension for {deliverable}. I can submit by {new_time} if that's okay." >>),
        Entry("Sincere", <<
          "A personal situation came up and I couldn't finish {deliverable}. May I submit by {new_time}?" >>) >> )
 @@ ( "Social Event" :> <<
        Entry("Casual", <<
          "I'm really sorry-I can't make it to {event} tonight. Can we catch up this weekend?" >>),
        Entry("Light-hearted", <<
          "My day did a plot twist. I have to miss {event}. Rain check for {new_time}?" >>) >> )
 @@ ( "Appointment" :> <<
        Entry("Professional", <<
          "I need to reschedule today's appointment due to a conflict. Could we move it to {new_time}?" >>) >> )
 @@ ( "Travel/Commute" :> <<
        Entry("Professional", <<
          "Travel delays are slowing me down. I should be there by {new_time}. Sorry for the hassle." >>),
        Entry("Brief", <<
          "Running late due to traffic. ETA {new_time}." >>) >> )

\* tone in tones
HasTone(tones, tone) == \E i \in DOMAIN tones : tones[i].tone = tone

\* tones[tone]
ListOf(tones, tone) ==
    LET i == CHOOSE j \in DOMAIN tones : tones[j].tone = tone
    IN  tones[i].list

\* _choose_template gone wrong: a tone the category lacks is looked up in "General"
ChooseTemplateBorrowingTone(categories, category, tone, r) ==
    LET chosen_category == IF category \in DOMAIN categories THEN category ELSE "General"
        tones == IF HasTone(categories[chosen_category], tone)
                 THEN categories[chosen_category] ELSE categories["General"]
        chosen_tone == IF HasTone(tones, tone) THEN tone ELSE tones[1].tone
    IN  Choice(ListOf(tones, chosen_tone), r)

\* _choose_template: the template drawn and the random state after
ChooseTemplate(categories, category, tone, r) ==
    LET chosen_category == IF category \in DOMAIN categories THEN category ELSE "General"
        tones == categories[chosen_category]
        chosen_tone == IF HasTone(tones, tone) THEN tone ELSE tones[1].tone
    IN  Choice(ListOf(tones, chosen_tone), r)


----------------------------------------------------------------------------
(* The clock.  The calendar is November 2026: day is the day of the month *)
(* and 1 November 2026 is a Sunday.                                        *)

DayNames == <<"Sunday", "Monday", "Tuesday", "Wednesday", "Thursday", "Friday", "Saturday">>

\* strftime("%A")
DayName(clock) == DayNames[((clock.day - 1) % 7) + 1]

\* strftime("%I"): the hour on the 12-hour clock
Hour12(h) == IF h % 12 = 0 THEN "12" ELSE TwoDigits(h % 12)

\* strftime("%p")
AmPm(h) == IF h < 12 THEN "AM" ELSE "PM"

\* strftime("%A %I:%M %p")
FormatDayTime(clock) ==
    DayName(clock) \o " " \o Hour12(clock.hour) \o ":" \o TwoDigits(clock.minute)
        \o " " \o AmPm(clock.hour)

\* strftime("%A %I %p")
FormatDayHour(clock) ==
    DayName(clock) \o " " \o Hour12(clock.hour) \o " " \o AmPm(clock.hour)

\* strftime("%Y%m%d")
FormatDate(clock) == "202611" \o TwoDigits(clock.day)

\* datetime.isoformat(), the clock read to the minute
IsoFormat(clock) ==
    "2026-11-" \o TwoDigits(clock.day) \o "T" \o TwoDigits(clock.hour) \o ":"
        \o TwoDigits(clock.minute) \o ":00"

----------------------------------------------------------------------------
(* The context builder *)

\* the timeframe gone wrong: the top band starts above 7
TimeframeLateBand(specificity, clock) ==
    IF specificity > 7 THEN FormatDayTime(clock)
    ELSE IF specificity >= 4 THEN DayName(clock)
    ELSE "today"

\* the context's timeframe value
Timeframe(specificity, clock) ==
    IF specificity >= 7 THEN FormatDayTime(clock)
    ELSE IF specificity >= 4 THEN DayName(clock)
    ELSE "today"

\* the context's new_time value
NewTime(specificity, clock) ==
    IF specificity >= 7
        THEN FormatDayTime([clock EXCEPT !.minute = (clock.minute \div 15) * 15])
    ELSE IF specificity >= 4
        THEN FormatDayHour([clock EXCEPT !.hour = (clock.hour + 3) % 24])
    ELSE "tomorrow"

\* the routing gone wrong: 120 characters still replace the deliverable
OverridesDeliverableUpTo120(text) ==
    Len(text) <= 120 /\ ~Contains(text, ",") /\ Contains(text, " ")

\* whether a custom context replaces the deliverable (else it becomes notes)
OverridesDeliverable(text) ==
    Len(text) < 120 /\ ~Contains(text, ",") /\ Contains(text, " ")

\* _build_context
BuildContext(request, clock) ==
    LET context == [ action      |-> "complete the task",
                     deliverable |-> "the deliverable",
                     event       |-> "the event",
                     timeframe   |-> Timeframe(request.specificity, clock),
                     new_time    |-> NewTime(request.specificity, clock) ]
        text == request.custom_context
    IN  IF text # None /\ text # ""
        THEN IF OverridesDeliverable(text)
             THEN [context EXCEPT !.deliverable = text]
             ELSE ("notes" :> text) @@ context
        ELSE context

----------------------------------------------------------------------------
(* The renderer.  The templates hold only simple {name} fields, the only  *)
(* part of str.format's grammar modelled.  A template is parsed into its   *)
(* parts, each a literal text followed by a field (None after the last     *)
(* literal), and the parts of the templates in use are parsed once.        *)

RECURSIVE ParseFrom(_, _)
ParseFrom(template, i) ==
    LET open == IndexOf(template, "{", i)
    IN  IF open = 0
        THEN << [literal |-> SubSeq(template, i, Len(template)), field |-> None] >>
        ELSE LET close == IndexOf(template, "}", open + 1)
             IN  << [literal |-> SubSeq(template, i, open - 1),
                     field   |-> SubSeq(template, open + 1, close - 1)] >>
                     \o ParseFrom(template, close + 1)

\* a template that consumes the notes of the context
NotesTemplate == "Quick note: {notes}. I'll update you by {new_time}."

\* every template of the built-in catalog, and the one that extends it
KnownTemplates ==
    UNION { UNION { Range(LoadTemplates[c][i].list) : i \in DOMAIN LoadTemplates[c] } :
            c \in DOMAIN LoadTemplates }
        \cup {NotesTemplate}

ParsedTemplates == { [template |-> t, parts |-> ParseFrom(t, 1)] : t \in KnownTemplates }

PartsOf(template) ==
    IF template \in KnownTemplates
    THEN (CHOOSE p \in ParsedTemplates : p.template = template).parts
    ELSE ParseFrom(template, 1)

\* the parts from the i-th on, each field replaced by its value
RECURSIVE Join(_, _, _)
Join(parts, context, i) ==
    IF i > Len(parts) THEN ""
    ELSE parts[i].literal
            \o (IF parts[i].field = None THEN "" ELSE context[parts[i].field])
            \o Join(parts, context, i + 1)

\* template.format(**context): ok with the text, or KeyError
Format(template, context) ==
    LET parts   == PartsOf(template)
        missing == {i \in DOMAIN parts :
                       parts[i].field # None /\ parts[i].field \notin DOMAIN context}
    IN  IF missing = {}
        THEN [ok |-> TRUE, text |-> Join(parts, context, 1)]
        ELSE [ok |-> FALSE, text |-> None]

----------------------------------------------------------------------------
(* The length adjuster *)

ShortLimit == 140

Addons == << " Thank you for your patience.",
             " I appreciate your understanding and will keep you informed.",
             " Please let me know if a different time works better." >>

\* _vary gone wrong: Short cuts every text of more than 100 characters
VaryLowLimit(text, length, r) ==
    IF length = "Short"
    THEN [text |-> Strip(IF Len(text) > 100
                         THEN SplitFirst(text, ". ") \o "."
                         ELSE text),
          rng |-> r]
    ELSE IF length = "Long"
    THEN LET c == Choice(Addons, r)
         IN  [text |-> Strip(text \o c.value), rng |-> c.rng]
    ELSE [text |-> Strip(text), rng |-> r]

\* _vary: the adjusted text and the random state after
Vary(text, length, r) ==
    IF length = "Short"
    THEN [text |-> Strip(IF Len(text) > ShortLimit
                         THEN SplitFirst(text, ". ") \o "."
                         ELSE text),
          rng |-> r]
    ELSE IF length = "Long"
    THEN LET c == Choice(Addons, r)
         IN  [text |-> Strip(text \o c.value), rng |-> c.rng]
    ELSE [text |-> Strip(text), rng |-> r]

----------------------------------------------------------------------------
(* The generator's public operations *)

\* what a call leaves behind: how it ended, what it computed, the random state
Outcome(status, template, context, rendered, text, r) ==
    [status |-> status, template |-> template, context |-> context,
     rendered |-> rendered, text |-> text, rng |-> r]

\* generate gone wrong: "if request.seed:", so that seed 0 does not reseed
GenerateCallTruthySeed(categories, request, r, clock) ==
    LET r0      == IF request.seed # NoSeed /\ request.seed # 0
                   THEN RngSeed(request.seed) ELSE r
        pick    == ChooseTemplate(categories, request.category, request.tone, r0)
        context == BuildContext(request, clock)
        f       == Format(pick.value, context)
        text    == IF f.ok THEN f.text ELSE pick.value
        v       == Vary(text, request.length, pick.rng)
    IN  Outcome("ok", pick.value, context, text, v.text, v.rng)

\* generate(request) started in random state r at time clock
GenerateCall(categories, request, r, clock) ==
    LET r0      == IF request.seed # NoSeed THEN RngSeed(request.seed) ELSE r
        pick    == ChooseTemplate(categories, request.category, request.tone, r0)
        context == BuildContext(request, clock)
        f       == Format(pick.value, context)
        text    == IF f.ok THEN f.text ELSE pick.value
        v       == Vary(text, request.length, pick.rng)
    IN  Outcome("ok", pick.value, context, text, v.text, v.rng)

\* rephrase gone wrong: seeded with the request's seed itself
RephraseCallSameSeed(categories, request, base_text, r, clock) ==
    LET r0      == IF request.seed # NoSeed THEN RngSeed(request.seed) ELSE r
        pick    == ChooseTemplate(categories, request.category, request.tone, r0)
        context == BuildContext(request, clock)
        f       == Format(pick.value, context)
        v       == Vary(f.text, request.length, pick.rng)
    IN  IF f.ok
        THEN Outcome("ok", pick.value, context, f.text, v.text, v.rng)
        ELSE Outcome("KeyError", pick.value, context, None, None, pick.rng)

\* rephrase(request, base_text) started in random state r at time clock
RephraseCall(categories, request, base_text, r, clock) ==
    LET r0      == IF request.seed # NoSeed THEN RngSeed(request.seed + 1) ELSE r
        pick    == ChooseTemplate(categories, request.category, request.tone, r0)
        context == BuildContext(request, clock)
        f       == Format(pick.value, context)
        v       == Vary(f.text, request.length, pick.rng)
    IN  IF f.ok
        THEN Outcome("ok", pick.value, context, f.text, v.text, v.rng)
        ELSE Outcome("KeyError", pick.value, context, None, None, pick.rng)

----------------------------------------------------------------------------
(* The log: JSON lines in a file per day *)

\* what json.dumps writes for one character of a string
EscapeChar(c) ==
    IF c = "\"" THEN "\\\""
    ELSE IF c = "\\" THEN "\\\\"
    ELSE IF c = "\n" THEN "\\n"
    ELSE IF c = "\r" THEN "\\r"
    ELSE IF c = "\t" THEN "\\t"
    ELSE c

\* the characters lo .. hi of s as json.dumps writes them inside a string
RECURSIVE EscapeRange(_, _, _)
EscapeRange(s, lo, hi) ==
    IF lo > hi THEN ""
    ELSE IF lo = hi THEN EscapeChar(CharAt(s, lo))
    ELSE LET mid == (lo + hi) \div 2
         IN  EscapeRange(s, lo, mid) \o EscapeRange(s, mid + 1, hi)

\* json.dumps(s, ensure_ascii=False) of a string
JsonString(s) == "\"" \o EscapeRange(s, 1, Len(s)) \o "\""

\* json.dumps({"timestamp": timestamp, "text": text}, ensure_ascii=False)
JsonDumps(record) ==
    "{\"timestamp\": " \o JsonString(record.timestamp)
        \o ", \"text\": " \o JsonString(record.text) \o "}"

\* the current working directory of the process
Cwd == "/app"

\* Path(p).resolve()
Resolve(p) == IF CharAt(p, 1) = "/" THEN p ELSE Cwd \o "/" \o p

\* the log file persist() appends to at time clock
LogFile(clock) == Resolve(".history") \o "/history_" \o FormatDate(clock) \o ".jsonl"

\* the text of a file, empty if the file does not exist
Content(files, path) == IF path \in DOMAIN files THEN files[path] ELSE ""

\* persist gone wrong: the file opened with "w", so that each call starts it anew
PersistCallOverwriting(disk, text, clock) ==
    LET record == [timestamp |-> IsoFormat(clock), text |-> text]
        file   == LogFile(clock)
        line   == JsonDumps(record) \o "\n"
    IN  [dirs  |-> disk.dirs \cup {Resolve(".history")},
         files |-> (file :> line) @@ disk.files]

\* persist(text) at time clock: the directory made if absent, one line appended
PersistCall(disk, text, clock) ==
    LET record == [timestamp |-> IsoFormat(clock), text |-> text]
        file   == LogFile(clock)
        line   == JsonDumps(record) \o "\n"
    IN  [dirs  |-> disk.dirs \cup {Resolve(".history")},
         files |-> (file :> (Content(disk.files, file) \o line)) @@ disk.files]

\* the record kept of a persist call that completed: the day it was made, the
\* text passed, and the directory the request asked for (None if none)
Persisted(text, persist_dir) == [day |-> now.day, text |-> text, dir |-> persist_dir]

----------------------------------------------------------------------------
(* Reading the log back: the file split into lines, each line parsed as   *)
(* the JSON object persist writes.                                         *)

\* the lines of a text, each ended by a newline
RECURSIVE Lines(_, _)
Lines(content, i) ==
    IF i > Len(content) THEN <<>>
    ELSE LET end == IndexOf(content, "\n", i)
         IN  IF end = 0 THEN << SubSeq(content, i, Len(content)) >>
             ELSE << SubSeq(content, i, end - 1) >> \o Lines(content, end + 1)

\* the number of backslashes in a row that end at index j
RECURSIVE BackslashRun(_, _)
BackslashRun(s, j) ==
    IF j < 1 \/ CharAt(s, j) # "\\" THEN 0 ELSE 1 + BackslashRun(s, j - 1)

\* the character at index j follows a backslash that escapes it
Escaped(s, j) == BackslashRun(s, j - 1) % 2 = 1

\* the first index in lo .. hi that holds a quote not escaped, 0 if none
RECURSIVE ClosingQuote(_, _, _)
ClosingQuote(s, lo, hi) ==
    IF lo > hi THEN 0
    ELSE IF lo = hi
    THEN IF CharAt(s, lo) = "\"" /\ ~Escaped(s, lo) THEN lo ELSE 0
    ELSE LET mid  == (lo + hi) \div 2
             left == ClosingQuote(s, lo, mid)
         IN  IF left # 0 THEN left ELSE ClosingQuote(s, mid + 1, hi)

\* the character an escape sequence \c stands for
UnescapeChar(c) ==
    IF c = "n" THEN "\n"
    ELSE IF c = "r" THEN "\r"
    ELSE IF c = "t" THEN "\t"
    ELSE c

\* the characters lo .. hi of the inside of a JSON string, escapes resolved
RECURSIVE UnescapeRange(_, _, _)
UnescapeRange(s, lo, hi) ==
    IF lo > hi THEN ""
    ELSE IF lo = hi
    THEN IF Escaped(s, lo) THEN UnescapeChar(CharAt(s, lo))
         ELSE IF CharAt(s, lo) = "\\" THEN ""
         ELSE CharAt(s, lo)
    ELSE LET mid == (lo + hi) \div 2
         IN  UnescapeRange(s, lo, mid) \o UnescapeRange(s, mid + 1, hi)

\* the JSON string that opens at index i: its value and the index after it
ReadString(s, i) ==
    LET close == ClosingQuote(s, i + 1, Len(s))
        inside == SubSeq(s, i + 1, close - 1)
    IN  [ok    |-> CharAt(s, i) = "\"" /\ close # 0,
         value |-> UnescapeRange(inside, 1, Len(inside)),
         next  |-> close + 1]

\* json.loads(line) for an object of two string members
JsonLoads(line) ==
    LET key1 == ReadString(line, 2)
        val1 == ReadString(line, key1.next + 2)
        key2 == ReadString(line, val1.next + 2)
        val2 == ReadString(line, key2.next + 2)
        ok   == /\ CharAt(line, 1) = "{"
                /\ key1.ok /\ SubSeq(line, key1.next, key1.next + 1) = ": "
                /\ val1.ok /\ SubSeq(line, val1.next, val1.next + 1) = ", "
                /\ key2.ok /\ SubSeq(line, key2.next, key2.next + 1) = ": "
                /\ val2.ok /\ SubSeq(line, val2.next, Len(line)) = "}"
    IN  IF ok THEN (key1.value :> val1.value) @@ (key2.value :> val2.value)
        ELSE [error |-> line]

\* the records of a log file, in file order
ReadLog(content) ==
    LET lines == Lines(content, 1)
    IN  [i \in DOMAIN lines |-> JsonLoads(lines[i])]

----------------------------------------------------------------------------
(* Inputs *)

\* the six scenarios of the catalog and one the catalog does not know
Categories == {"General", "Work Deadline", "School Assignment", "Social Event",
               "Appointment", "Travel/Commute"}
UnknownCategory == "Family Dinner"

\* the five tones of the sidebar and one no category defines
Tones == {"Professional", "Casual", "Sincere", "Brief", "Light-hearted"}
UnknownTone == "Sarcastic"

Lengths == {"Short", "Medium", "Long"}

\* ExcuseRequest(...), with the dataclass defaults for what is not given
Request(category, tone, specificity, length, custom_context, seed) ==
    [category |-> category, audience |-> "Manager", tone |-> tone,
     specificity |-> specificity, length |-> length,
     custom_context |-> custom_context, seed |-> seed,
     persist_history |-> FALSE, persist_dir |-> None]

\* n copies of the character c
RECURSIVE Repeat(_, _)
Repeat(c, n) ==
    IF n <= 0 THEN ""
    ELSE LET half == Repeat(c, n \div 2)
         IN  half \o half \o (IF n % 2 = 1 THEN c ELSE "")

\* a text of exactly n characters, with a space and without a comma
Spaced(n) == "project " \o Repeat("x", n - 8)

NoSession == [history |-> <<>>, current_excuse |-> None]
NoFiles == [dirs |-> {}, files |-> <<>>]
NoLog == [persisted |-> <<>>, returned |-> <<>>]
NoCall == [op |-> None]

----------------------------------------------------------------------------
(* The selector on its own: every (category, tone) pair, every random     *)
(* state.                                                                  *)

InitSelect ==
    /\ templates = LoadTemplates
    /\ rng \in RngStates
    /\ now = [day |-> 4, hour |-> 9, minute |-> 30]
    /\ \E c \in Categories \cup {UnknownCategory}, t \in Tones \cup {UnknownTone} :
           form = Request(c, t, 6, "Medium", None, NoSeed)
    /\ last = NoCall
    /\ seen = <<>>
    /\ session = NoSession
    /\ fs = NoFiles
    /\ log = NoLog

\* one call of _choose_template(form.category, form.tone)
SelectStep ==
    LET pick == ChooseTemplate(templates, form.category, form.tone, rng)
    IN  /\ last' = [op |-> "choose", template |-> pick.value, rng0 |-> rng]
        /\ rng' = pick.rng
        /\ UNCHANGED <<templates, now, form, seen, session, fs, log>>

NextSelect == SelectStep

SpecSelect == InitSelect /\ [][NextSelect]_vars

\* the tones a category defines, in insertion order
ToneNames(category) == [i \in DOMAIN LoadTemplates[category] |-> LoadTemplates[category][i].tone]

\* C3: the template the selector returns is a member of catalog[rc][rt], rc the
\* category if the catalog has it and "General" otherwise, rt the tone if rc
\* defines it and otherwise the first tone of rc (never a tone borrowed from
\* "General"); an unknown category draws exactly what "General" draws.
C3_SelectorFallback ==
    last.op = "choose" =>
        LET rc == IF form.category \in Categories THEN form.category ELSE "General"
            rt == IF form.tone \in Range(ToneNames(rc)) THEN form.tone ELSE ToneNames(rc)[1]
            list == ListOf(LoadTemplates[rc], rt)
        IN  /\ last.template \in Range(list)
            /\ form.category \notin Categories =>
                   last.template = ChooseTemplate(templates, "General", form.tone, last.rng0).value

\* a tone missing from a category other than "General" has been resolved
C3_Witness ==
    /\ last.op = "choose"
    /\ form.category = "Social Event"
    /\ form.tone = "Professional"
    /\ last.template = "I'm really sorry-I can't make it to {event} tonight. Can we catch up this weekend?"

----------------------------------------------------------------------------
(* The context builder on its own: every specificity of the slider at     *)
(* every hour of a week, and the custom contexts at a few clock values.    *)

Specificities == 0 .. 10

Minutes == {0, 1, 14, 15, 16, 29, 30, 31, 44, 45, 46, 59}

WeekClocks == [day : 1 .. 7, hour : 0 .. 23, minute : Minutes]

FewClocks == { [day |-> 4, hour |-> 9, minute |-> 7],
               [day |-> 7, hour |-> 22, minute |-> 59] }

CustomContexts ==
    { "", "client demo", "thesis", "slides, notes", " ", "the Q3. report",
      Spaced(119), Spaced(120), Spaced(121), Repeat("x", 30) }

InitContext ==
    /\ templates = LoadTemplates
    /\ rng = 0
    /\ \E sp \in Specificities :
          \/ /\ now \in WeekClocks
             /\ form = Request("General", "Professional", sp, "Medium", None, NoSeed)
          \/ /\ now \in FewClocks
             /\ \E cc \in CustomContexts :
                    form = Request("General", "Professional", sp, "Medium", cc, NoSeed)
    /\ last = NoCall
    /\ seen = <<>>
    /\ session = NoSession
    /\ fs = NoFiles
    /\ log = NoLog

\* one call of _build_context(form)
BuildStep ==
    /\ last.op = None
    /\ last' = [op |-> "build", context |-> BuildContext(form, now)]
    /\ UNCHANGED <<templates, rng, now, form, seen, session, fs, log>>

NextContext == BuildStep

SpecContext == InitContext /\ [][NextContext]_vars

\* the 24 hours as %I %p prints them
HourNames ==
    << "12 AM", "01 AM", "02 AM", "03 AM", "04 AM", "05 AM", "06 AM", "07 AM",
       "08 AM", "09 AM", "10 AM", "11 AM", "12 PM", "01 PM", "02 PM", "03 PM",
       "04 PM", "05 PM", "06 PM", "07 PM", "08 PM", "09 PM", "10 PM", "11 PM" >>

\* hour h and minute m as %I:%M %p prints them
ClockFace(h, m) ==
    SubSeq(HourNames[h + 1], 1, 2) \o ":" \o TwoDigits(m) \o SubSeq(HourNames[h + 1], 3, 5)

\* the quarter of the hour a minute lies in
Quarter(m) == IF m < 15 THEN 0 ELSE IF m < 30 THEN 15 ELSE IF m < 45 THEN 30 ELSE 45

\* C6: below specificity 4 the context says "today" and "tomorrow"; from 4 to 6
\* timeframe is the bare weekday and new_time the weekday with the hour three
\* hours on (modulo 24), without minutes; from 7 on timeframe is the weekday with
\* the exact hour:minute and new_time the weekday with the minute rounded down
\* to a quarter of an hour.
C6_SpecificityBands ==
    last.op = "build" =>
        LET sp == form.specificity
            weekday == DayNames[((now.day - 1) % 7) + 1]
        IN  /\ sp \in {0, 1, 2, 3} =>
                /\ last.context.timeframe = "today"
                /\ last.context.new_time = "tomorrow"
            /\ sp \in {4, 5, 6} =>
                /\ last.context.timeframe = weekday
                /\ last.context.new_time =
                       weekday \o " " \o HourNames[((now.hour + 3) % 24) + 1]
            /\ sp \in {7, 8, 9, 10} =>
                /\ last.context.timeframe = weekday \o " " \o ClockFace(now.hour, now.minute)
                /\ last.context.new_time =
                       weekday \o " " \o ClockFace(now.hour, Quarter(now.minute))

\* the middle band late in the evening: the hour wraps past midnight
C6_Witness ==
    /\ last.op = "build"
    /\ form.specificity = 6
    /\ now = [day |-> 1, hour |-> 22, minute |-> 44]
    /\ last.context.timeframe = "Sunday"
    /\ last.context.new_time = "Sunday 01 AM"

\* C7: a non-empty custom context replaces deliverable exactly when it is
\* shorter than 120 characters, has no comma and has a space; otherwise it goes
\* under notes and deliverable keeps its default.  Either way action, event,
\* timeframe and new_time are what they are without a custom context, and
\* without one there is no notes key.
C7_CustomContextRouting ==
    last.op = "build" =>
        LET cc == form.custom_context
            context == last.context
            plain == BuildContext([form EXCEPT !.custom_context = None], now)
        IN  /\ (cc # None /\ cc # "") =>
                IF Len(cc) <= 119 /\ ~(\E i \in 1 .. Len(cc) : CharAt(cc, i) = ",")
                                  /\ (\E i \in 1 .. Len(cc) : CharAt(cc, i) = " ")
                THEN /\ context.deliverable = cc
                     /\ DOMAIN context = {"action", "deliverable", "event", "timeframe", "new_time"}
                ELSE /\ DOMAIN context = {"action", "deliverable", "event", "timeframe", "new_time", "notes"}
                     /\ context.notes = cc
                     /\ context.deliverable = "the deliverable"
            /\ (cc = None \/ cc = "") =>
                /\ DOMAIN context = {"action", "deliverable", "event", "timeframe", "new_time"}
                /\ context.deliverable = "the deliverable"
            /\ \A k \in {"action", "event", "timeframe", "new_time"} : context[k] = plain[k]
            /\ context.action = "complete the task"
            /\ context.event = "the event"

\* a custom context of exactly 120 characters, with a space and no comma, has
\* gone under notes
C7_Witness ==
    /\ last.op = "build"
    /\ Len(form.custom_context) = 120
    /\ "notes" \in DOMAIN last.context
    /\ last.context.notes = form.custom_context
    /\ last.context.deliverable = "the deliverable"

\* a custom context of 119 characters has replaced the deliverable
C7_WitnessOverride ==
    /\ last.op = "build"
    /\ Len(form.custom_context) = 119
    /\ last.context.deliverable = form.custom_context

----------------------------------------------------------------------------
(* The length adjuster on its own: the texts the pipeline renders from    *)
(* every template, and some texts with blanks at their ends, adjusted to   *)
(* each length.                                                            *)

VaryCustoms == {None, "client demo", "the Q3. report", Spaced(119)}

EdgeTexts ==
    { "",
      "  Sorry. I am late.  ",
      "Running late. " \o Repeat("z", 130) \o ".  ",
      "  " \o Repeat("y", 139) \o ". Sorry",
      Repeat("w", 141),
      Repeat("v", 140) \o ". ",
      Repeat(" ", 141) }

Rendered(text) == [op |-> "render", rendered |-> text,
                   Short |-> None, Medium |-> None, Long |-> None]

InitVary ==
    /\ templates = LoadTemplates
    /\ rng \in RngStates
    /\ now = [day |-> 4, hour |-> 9, minute |-> 7]
    /\ \/ /\ \E c \in Categories, t \in Tones, sp \in {2, 8}, cc \in VaryCustoms :
                 form = Request(c, t, sp, "Medium", cc, NoSeed)
          /\ last = NoCall
       \/ /\ form = Request("General", "Brief", 2, "Medium", None, NoSeed)
          /\ \E text \in EdgeTexts : last = Rendered(text)
    /\ seen = <<>>
    /\ session = NoSession
    /\ fs = NoFiles
    /\ log = NoLog

\* the pipeline up to the length adjuster: select, build the context, render
RenderStep ==
    /\ last.op = None
    /\ LET out == GenerateCall(templates, form, rng, now)
           pick == ChooseTemplate(templates, form.category, form.tone, rng)
       IN  /\ last' = Rendered(out.rendered)
           /\ rng' = pick.rng
    /\ UNCHANGED <<templates, now, form, seen, session, fs, log>>

\* one call of _vary(last.rendered, request) with request.length = length
VaryStep(length) ==
    /\ last.op = "render"
    /\ last[length] = None
    /\ LET v == Vary(last.rendered, length, rng)
       IN  /\ last' = [last EXCEPT ![length] = v.text]
           /\ rng' = v.rng
    /\ UNCHANGED <<templates, now, form, seen, session, fs, log>>

NextVary ==
    \/ RenderStep
    \/ \E length \in Lengths : VaryStep(length)

SpecVary == InitVary /\ [][NextVary]_vars

\* the text up to the first ". ", with a period appended
FirstSentence(text) == SplitFirst(text, ". ") \o "."

C5_WitnessWhole ==
    /\ last.op = "render"
    /\ last.rendered = "Delay on the deliverable due to a blocker. New ETA tomorrow."
    /\ last.Short = last.rendered
    /\ last.Medium = last.rendered

----------------------------------------------------------------------------
(* One generator used as a library: any sequence of generate, rephrase    *)
(* and persist calls for one request, with any seed or none, at one clock  *)
(* value, on the built-in catalog or on one extended by a template.        *)

\* the largest seed the calls are made with
MaxSeed == 1

Seeds == 0 .. MaxSeed

\* the persist calls made on the generator used as a library
MaxLibraryPersist == 1

GenForms ==
    { Request(c, t, 8, l, cc, NoSeed) :
        c \in {"General"}, t \in {"Professional", "Casual"},
        l \in Lengths, cc \in {None, "slides, notes"} }

\* the clock stands still during the calls
GenClocks == { [day |-> 7, hour |-> 22, minute |-> 59] }

\* the base texts handed to rephrase
BaseTexts == {"", "Running late due to traffic. ETA tomorrow."}

NothingSeen == [s \in Seeds |-> [text |-> None, template |-> None, again |-> FALSE]]

Init ==
    /\ templates = LoadTemplates
    /\ rng \in RngStates
    /\ now \in GenClocks
    /\ form \in GenForms
    /\ last = NoCall
    /\ seen = NothingSeen
    /\ session = NoSession
    /\ fs = NoFiles
    /\ log = NoLog

\* what is kept of a call: the operation, its seed, and what it computed
Call(op, seed, out) ==
    [op |-> op, seed |-> seed, status |-> out.status, template |-> out.template,
     context |-> out.context, rendered |-> out.rendered, text |-> out.text]

\* a call changed the random state since the generate call seen[seed] records
Remember(seed, out) ==
    IF seed = NoSeed THEN seen
    ELSE IF seen[seed].text = None
    THEN [seen EXCEPT ![seed] = [text |-> out.text, template |-> out.template,
                                 again |-> FALSE]]
    ELSE [seen EXCEPT ![seed].again =
              @ \/ ~(last.op = "generate" /\ last.seed = seed)]

\* generator.generate(request), request the form with the given seed
Generate(seed) ==
    \E out \in {GenerateCall(templates, [form EXCEPT !.seed = seed], rng, now)} :
        /\ last' = Call("generate", seed, out)
        /\ rng' = out.rng
        /\ seen' = Remember(seed, out)
        /\ UNCHANGED <<templates, now, form, session, fs, log>>

\* generator.rephrase(request, base_text), request the form with the given seed
Rephrase(seed, base_text) ==
    \E out \in {RephraseCall(templates, [form EXCEPT !.seed = seed], base_text, rng, now)} :
        /\ last' = Call("rephrase", seed, out)
        /\ rng' = out.rng
        /\ UNCHANGED <<templates, now, form, seen, session, fs, log>>

\* generator.persist(text)
Persist(text) ==
    /\ Len(log.persisted) < MaxLibraryPersist
    /\ fs' = PersistCall(fs, text, now)
    /\ log' = [log EXCEPT !.persisted = Append(@, Persisted(text, None))]
    /\ UNCHANGED <<templates, rng, now, form, last, seen, session>>

\* generator.templates["General"]["Professional"].append(NotesTemplate): the
\* catalog is a public attribute, and is meant to be extended
ExtendCatalog ==
    /\ templates = LoadTemplates
    /\ templates' = [templates EXCEPT !["General"][1].list = Append(@, NotesTemplate)]
    /\ last' = NoCall
    /\ seen' = NothingSeen
    /\ UNCHANGED <<rng, now, form, session, fs, log>>

Next ==
    \/ \E seed \in Seeds \cup {NoSeed} : Generate(seed)
    \/ \E seed \in Seeds \cup {NoSeed}, base_text \in BaseTexts : Rephrase(seed, base_text)
    \/ Persist("Running late due to traffic. ETA tomorrow.")
    \/ ExtendCatalog

Spec == Init /\ [][Next]_vars

\* C1: a generate call with a seed returns the text, and draws the template,
\* that the first generate call with that seed returned for the same request
\* at the same clock value, whatever calls were made in between.
C1_SeededGenerateRepeats ==
    (last.op = "generate" /\ last.seed # NoSeed) =>
        /\ last.text = seen[last.seed].text
        /\ last.template = seen[last.seed].template

\* a seeded generate call of length Long has been repeated after other calls
\* had moved the random source
C1_Witness ==
    /\ last.op = "generate"
    /\ last.seed = 1
    /\ seen[1].again
    /\ form.length = "Long"
    /\ last.text = seen[1].text

\* the fields a template references that the context does not hold
MissingFields(template, context) ==
    {f \in {ParseFrom(template, 1)[i].field : i \in DOMAIN ParseFrom(template, 1)} :
        f # None /\ f \notin DOMAIN context}

\* a rephrase call without a seed has just been made
UnseededRephrase ==
    /\ last'.op = "rephrase"
    /\ last'.seed = NoSeed
    /\ <<last', rng'>> # <<last, rng>>

\* C2: rephrase with seed S draws the template generate draws with seed S+1
\* (so not the one of seed S, where the two differ), whatever the base text
\* and the random state before; without a seed it draws from the random state
\* it finds, and leaves the source advanced by its own draws only.
C2_RephraseSeedsWithSuccessor ==
    /\ [](  (last.op = "rephrase" /\ last.seed # NoSeed /\ last.seed + 1 \in Seeds
              /\ seen[last.seed + 1].text # None)
            => last.template = seen[last.seed + 1].template )
    /\ [][ UnseededRephrase =>
             LET list == ListOf(templates[form.category], form.tone)
                 draws == IF last'.status = "ok" /\ form.length = "Long" THEN 2 ELSE 1
             IN  /\ last'.template = list[(rng % Len(list)) + 1]
                 /\ rng' = IF draws = 2 THEN RngNext(RngNext(rng)) ELSE RngNext(rng) ]_vars

\* rephrase with seed 0 has drawn the template of generate with seed 1, which
\* is not the template of generate with seed 0
C2_Witness ==
    /\ last.op = "rephrase"
    /\ last.seed = 0
    /\ seen[0].text # None
    /\ seen[1].text # None
    /\ last.template = seen[1].template
    /\ last.template # seen[0].template

\* C4: in generate and in rephrase, a template that references a placeholder
\* the context does not hold raises nothing, and the text handed to the length
\* adjuster is the template itself.
C4_MissingPlaceholderFallsBack ==
    (last.op \in {"generate", "rephrase"}
        /\ MissingFields(last.template, last.context) # {})
    => /\ last.status = "ok"
       /\ last.rendered = last.template

----------------------------------------------------------------------------
(* The front end: one browser session.  Every interaction reruns main():  *)
(* the request is rebuilt from the sidebar, a new generator is made (its   *)
(* random source seeded afresh, so rng holds no state between runs), and   *)
(* the button that was clicked is served.                                  *)

\* the history list is followed up to this length
MaxHistory == 2

\* the days the session lasts
MaxDays == 2

\* the session opens late on Wednesday 4 November
Opening == [day |-> 4, hour |-> 23, minute |-> 10]

FirstDay == Opening.day

\* a context with a quote, a backslash and a line break (the text area takes
\* several lines), that replaces the deliverable
QuotedContext == "the \"Q3\" plan\\v2\nfinal draft"

\* str(Path(".history").resolve()), the default of the History folder field
DefaultFolder == Resolve(".history")

OtherFolder == "/tmp/excuses"

\* seed=int(seed) if seed else None: the number field's 0 is no seed
SidebarSeed(value) == IF value = 0 THEN NoSeed ELSE value

\* render_sidebar_controls(): the request built from the widgets
SidebarRequest(category, tone, specificity, length, custom_context, seed, persist_history, folder) ==
    [category |-> category, audience |-> "Manager", tone |-> tone,
     specificity |-> specificity, length |-> length,
     custom_context |-> Strip(custom_context), seed |-> SidebarSeed(seed),
     persist_history |-> persist_history,
     persist_dir |-> IF persist_history THEN folder ELSE None]

\* the requests the sidebar is set to
AppForms ==
    { SidebarRequest("Work Deadline", "Brief", 2, "Medium", cc, seed, ph, folder) :
        cc \in {"", QuotedContext}, seed \in {0, 1}, ph \in BOOLEAN,
        folder \in {DefaultFolder, OtherFolder} }

InitApp ==
    /\ templates = LoadTemplates
    /\ rng = 0
    /\ now = Opening
    /\ form = SidebarRequest("Work Deadline", "Brief", 2, "Medium", "", 0, FALSE, DefaultFolder)
    /\ last = NoCall
    /\ seen = <<>>
    /\ session = NoSession
    /\ fs = NoFiles
    /\ log = NoLog

\* a widget of the sidebar is changed: a rerun with no button clicked
EditSidebar ==
    /\ form' \in AppForms \ {form}
    /\ last' = NoCall
    /\ UNCHANGED <<templates, rng, now, seen, session, fs, log>>

\* the bookkeeping gone wrong: the newest text put first
KeepNewestFirst(result) ==
    [history |-> <<result>> \o session.history, current_excuse |-> result]

\* session_state["current_excuse"] = result; session_state["history"].append(result)
Keep(result) ==
    [history |-> Append(session.history, result), current_excuse |-> result]

\* if request.persist_history: generator.persist(result), which completes or
\* raises before it has written (the directory or the file cannot be made)
PersistIfAsked(click, result) ==
    IF form.persist_history
    THEN \/ /\ fs' = PersistCall(fs, result, now)
            /\ log' = [log EXCEPT !.returned = Append(@, result),
                                  !.persisted = Append(@, Persisted(result, form.persist_dir))]
            /\ last' = [op |-> click, persist |-> "done"]
         \/ /\ fs' = fs
            /\ log' = [log EXCEPT !.returned = Append(@, result)]
            /\ last' = [op |-> click, persist |-> "failed"]
    ELSE /\ fs' = fs
         /\ log' = [log EXCEPT !.returned = Append(@, result)]
         /\ last' = [op |-> click, persist |-> "off"]

\* the Generate button
ClickGenerate ==
    /\ Len(session.history) < MaxHistory
    /\ \E r0 \in RngStates :
         \E out \in {GenerateCall(templates, form, r0, now)} :
            /\ session' = Keep(out.text)
            /\ PersistIfAsked("generate", out.text)
    /\ UNCHANGED <<templates, rng, now, form, seen>>

\* the Rephrase button
ClickRephrase ==
    IF session.current_excuse # None /\ session.current_excuse # ""
    THEN /\ Len(session.history) < MaxHistory
         /\ \E r0 \in RngStates :
              \E out \in {RephraseCall(templates, form, session.current_excuse, r0, now)} :
                 IF out.status = "ok"
                 THEN /\ session' = Keep(out.text)
                      /\ PersistIfAsked("rephrase", out.text)
                 ELSE /\ last' = [op |-> "rephrase", persist |-> "raised"]
                      /\ UNCHANGED <<session, fs, log>>
         /\ UNCHANGED <<templates, rng, now, form, seen>>
    ELSE /\ last' = [op |-> "rephrase", persist |-> "skipped"]
         /\ UNCHANGED <<templates, rng, now, form, seen, session, fs, log>>

\* midnight passes
Tick ==
    /\ now.day < FirstDay + MaxDays - 1
    /\ now' = [now EXCEPT !.day = @ + 1]
    /\ UNCHANGED <<templates, rng, form, last, seen, session, fs, log>>

NextApp ==
    \/ EditSidebar
    \/ ClickGenerate
    \/ ClickRephrase
    \/ Tick

SpecApp == InitApp /\ [][NextApp]_vars

\* the days of the session
Days == FirstDay .. (FirstDay + MaxDays - 1)

\* the texts of the records read back from the log file of day d
TextsOfDay(d) ==
    LET records == ReadLog(Content(fs.files, LogFile([now EXCEPT !.day = d])))
    IN  [i \in DOMAIN records |-> records[i].text]

\* the texts passed to the persist calls that completed on day d, in call order
PassedOnDay(d) ==
    LET OnDay(call) == call.day = d
        calls == SelectSeq(log.persisted, OnDay)
    IN  [i \in DOMAIN calls |-> calls[i].text]

\* the texts passed to all the persist calls that completed, in call order
PassedSoFar == [i \in DOMAIN log.persisted |-> log.persisted[i].text]

\* s is the beginning of t
StartsWith(t, s) == Len(s) <= Len(t) /\ SubSeq(t, 1, Len(s)) = s

\* C8 as claimed: after any N persist calls, the day's log file reads back as
\* exactly N records, in call order, each with the text passed to its call.
C8_DayLogHoldsEveryCall ==
    TextsOfDay(now.day) = PassedSoFar

\* C8 as amended: on a log directory that held no file before, the log file of
\* each calendar day reads back as exactly the records of the persist calls
\* that completed on that day, in call order, each with the text passed to its
\* call (the calls of another day are in that day's file); and no call
\* rewrites or removes what a file already holds.
C8_EachDayLogHoldsItsCalls ==
    /\ [](\A d \in Days : TextsOfDay(d) = PassedOnDay(d))
    /\ [][\A path \in DOMAIN fs.files :
             /\ path \in DOMAIN fs'.files
             /\ StartsWith(fs'.files[path], fs.files[path])]_vars

\* two calls on the first day and none yet on the second, the texts with a
\* quote, a backslash and a line break
C8_Witness ==
    /\ now.day = FirstDay + 1
    /\ Len(log.persisted) = 2
    /\ PassedOnDay(FirstDay) = PassedSoFar
    /\ Len(TextsOfDay(FirstDay)) = 2
    /\ Contains(TextsOfDay(FirstDay)[2], QuotedContext)
    /\ TextsOfDay(now.day) = <<>>

\* the log file of a day in the directory the request names
LogFileIn(folder, day) ==
    Resolve(folder) \o "/history_" \o "202611" \o TwoDigits(day) \o ".jsonl"

\* C9: every persist call appends its record to the daily log file in the
\* directory the request carries (the History folder field), which it creates
\* if absent; nothing is written under any other directory.
C9_LogInRequestedFolder ==
    /\ \A i \in DOMAIN log.persisted :
          LET call == log.persisted[i]
              file == LogFileIn(call.dir, call.day)
          IN  call.dir # None =>
                /\ Resolve(call.dir) \in fs.dirs
                /\ file \in DOMAIN fs.files
                /\ \E j \in DOMAIN ReadLog(fs.files[file]) :
                       ReadLog(fs.files[file])[j].text = call.text
    /\ \A path \in DOMAIN fs.files :
          \E i \in DOMAIN log.persisted :
              log.persisted[i].dir # None
                  /\ StartsWith(path, Resolve(log.persisted[i].dir) \o "/")

\* the front end has just served a Rephrase click with no current excuse
SkippedRephrase ==
    /\ last'.op = "rephrase"
    /\ last'.persist = "skipped"

\* C10: the history list is exactly the texts generate and rephrase returned,
\* in call order, and its last element is the current excuse; it only grows at
\* its end, also when persist fails after the append; and a Rephrase click
\* with no current excuse changes neither the history, the current excuse nor
\* the log.
C10_HistoryIsWhatWasReturned ==
    /\ [](  /\ session.history = log.returned
            /\ session.history # <<>> =>
                   session.history[Len(session.history)] = session.current_excuse
            /\ session.history = <<>> => session.current_excuse = None )
    /\ [][ /\ StartsWith(session'.history, session.history)
           /\ SkippedRephrase => UNCHANGED <<session, fs, log>> ]_vars

\* persist has failed on the second text, which is in the history all the same
C10_Witness ==
    /\ last.op \in {"generate", "rephrase"}
    /\ last.persist = "failed"
    /\ Len(session.history) = 2
    /\ session.history[1] # session.history[2]
    /\ session.current_excuse = session.history[2]
    /\ Len(log.persisted) = 1

=============================================================================
